---- MODULE Spec2Model ----
(***************************************************************************)
(* The character stat computation engine of DiceCloud                      *)
(* (recomputeCharacter: buildCharacter, computeCharacter, computeStat,     *)
(* computeEffect, applyEffect, combineStat, evaluateCalculation), as a     *)
(* small-step state machine with an explicit call stack.                   *)
(*                                                                         *)
(* The file is a Meteor module without "use strict", so the undeclared     *)
(* loop variables i and statName are properties of the global object.      *)
(***************************************************************************)
EXTENDS Integers, Sequences, FiniteSets, TLC

VARIABLES
    records,   \* the raw documents of the character, in cursor order
    char,      \* the in-memory character built by buildCharacter
    stack,     \* the JavaScript call stack below computeCharacterById
    i,         \* the global loop variable i (computeStat, combineSkill)
    status,    \* "idle" | "running" | "writing" | "done" | the uncaught error
    prev,      \* outcome of the previous pass over the same documents
    log,       \* per pass: how often each stat's effect loop and combiner ran
    updates    \* the update operations writeCharacter has issued in this pass

vars == <<records, char, stack, i, status, prev, log, updates>>

----------------------------------------------------------------------------
(* Bounds of the model.                                                    *)

\* Depth of the call stack at which the engine raises RangeError
\* ("Maximum call stack size exceeded").
MaxDepth == 16

----------------------------------------------------------------------------
(* JavaScript values: numbers (rationals n/d, NaN, +-Infinity), strings    *)
(* (the text of a formula, as a sequence of lexemes) and undefined.        *)

RECURSIVE Gcd(_, _)
Gcd(a, b) == IF b = 0 THEN a ELSE Gcd(b, a % b)

Abs(n) == IF n < 0 THEN -n ELSE n

Rat(n, d) ==
    LET g == Gcd(Abs(n), Abs(d))
        sg == IF d < 0 THEN -1 ELSE 1
    IN [t |-> "num", n |-> (sg * n) \div g, d |-> (sg * d) \div g, s |-> <<>>]

Num(n) == [t |-> "num", n |-> n, d |-> 1, s |-> <<>>]
NaN == [t |-> "nan", n |-> 0, d |-> 1, s |-> <<>>]
PosInf == [t |-> "inf", n |-> 0, d |-> 1, s |-> <<>>]
NegInf == [t |-> "ninf", n |-> 0, d |-> 1, s |-> <<>>]
Undefined == [t |-> "undefined", n |-> 0, d |-> 1, s |-> <<>>]
Text(s) == [t |-> "text", n |-> 0, d |-> 1, s |-> s]

\* Lexemes of a formula: a word (maximal run of word characters that is not
\* a number), a value (a numeric literal, or a substituted number) and an
\* arithmetic operator.
Word(w) == [k |-> "word", w |-> w, v |-> Undefined]
Val(v) == [k |-> "val", w |-> <<>>, v |-> v]
Op(o) == [k |-> "op", w |-> <<o>>, v |-> Undefined]

\* ToNumber: a string that is not numeric is NaN, the empty string is 0.
ToNumber(v) ==
    CASE v.t = "text" -> IF v.s = <<>> THEN Num(0) ELSE NaN
      [] v.t = "undefined" -> NaN
      [] OTHER -> v

Sign(v) ==
    CASE v.t = "inf" -> 1
      [] v.t = "ninf" -> -1
      [] OTHER -> IF v.n > 0 THEN 1 ELSE IF v.n < 0 THEN -1 ELSE 0

Signed(sg) == IF sg > 0 THEN PosInf ELSE NegInf

NumAdd(a, b) ==
    CASE a.t = "nan" \/ b.t = "nan" -> NaN
      [] a.t = "num" /\ b.t = "num" -> Rat(a.n * b.d + b.n * a.d, a.d * b.d)
      [] a.t = "num" -> b
      [] b.t = "num" -> a
      [] OTHER -> IF a.t = b.t THEN a ELSE NaN

NumMul(a, b) ==
    CASE a.t = "nan" \/ b.t = "nan" -> NaN
      [] a.t = "num" /\ b.t = "num" -> Rat(a.n * b.n, a.d * b.d)
      [] OTHER -> IF Sign(a) * Sign(b) = 0 THEN NaN ELSE Signed(Sign(a) * Sign(b))

NumDiv(a, b) ==
    CASE a.t = "nan" \/ b.t = "nan" -> NaN
      [] a.t = "num" /\ b.t = "num" ->
            IF b.n # 0 THEN Rat(a.n * b.d, a.d * b.n)
            ELSE IF a.n = 0 THEN NaN ELSE Signed(Sign(a))
      [] a.t = "num" -> Num(0)
      [] b.t = "num" -> Signed(Sign(a) * (IF Sign(b) < 0 THEN -1 ELSE 1))
      [] OTHER -> NaN

NumLt(a, b) ==
    CASE a.t = "nan" \/ b.t = "nan" -> FALSE
      [] a.t = "num" /\ b.t = "num" -> a.n * b.d < b.n * a.d
      [] a.t = "ninf" -> b.t # "ninf"
      [] a.t = "inf" -> FALSE
      [] OTHER -> b.t = "inf"

\* Math.floor
Floor(v) ==
    LET x == ToNumber(v)
    IN IF x.t = "num" THEN Num(x.n \div x.d) ELSE x

\* The operators +, *, -, <, > of JavaScript.
JsAdd(a, b) ==
    IF a.t = "text" \/ b.t = "text"
    THEN Text((IF a.t = "text" THEN a.s ELSE <<Val(a)>>)
              \o (IF b.t = "text" THEN b.s ELSE <<Val(b)>>))
    ELSE NumAdd(ToNumber(a), ToNumber(b))
JsMul(a, b) == NumMul(ToNumber(a), ToNumber(b))
JsSub(a, b) == NumAdd(ToNumber(a), NumMul(Num(-1), ToNumber(b)))
JsDiv(a, b) == NumDiv(ToNumber(a), ToNumber(b))
JsLt(a, b) == NumLt(ToNumber(a), ToNumber(b))
JsGt(a, b) == NumLt(ToNumber(b), ToNumber(a))

\* Truthiness of a value (if (x), x || y, x && y).
Truthy(v) ==
    CASE v.t = "num" -> v.n # 0
      [] v.t = "text" -> v.s # <<>>
      [] v.t \in {"nan", "undefined"} -> FALSE
      [] OTHER -> TRUE

\* _.isFinite
IsFinite(v) == v.t = "num"

----------------------------------------------------------------------------
(* Strings are sequences of one-character strings, so that toLowerCase,    *)
(* slice and the regular expressions are computed character by character.  *)

UpperCase == <<"A","B","C","D","E","F","G","H","I","J","K","L","M",
               "N","O","P","Q","R","S","T","U","V","W","X","Y","Z">>
LowerCase == <<"a","b","c","d","e","f","g","h","i","j","k","l","m",
               "n","o","p","q","r","s","t","u","v","w","x","y","z">>
Digits19 == {"1","2","3","4","5","6","7","8","9"}

Range(f) == {f[x] : x \in DOMAIN f}

\* String.prototype.toLowerCase (line 606)
toLowerCase(w) ==
    [x \in DOMAIN w |->
        IF w[x] \in Range(UpperCase)
        THEN LowerCase[CHOOSE j \in DOMAIN UpperCase : UpperCase[j] = w[x]]
        ELSE w[x]]

\* \w
IsWordChar(c) == c \in Range(UpperCase) \cup Range(LowerCase) \cup Digits19 \cup {"0", "_"}

\* The character class [a-z,1-9] under the i flag (line 604).
InTokenClass(c) == c \in Range(UpperCase) \cup Range(LowerCase) \cup Digits19 \cup {","}

\* /\b[a-z,1-9]+\b/gi matches a maximal run of word characters exactly
\* when every character of the run is in the class.
MatchesToken(w) == w # <<>> /\ \A x \in DOMAIN w : InTokenClass(w[x])

EndsWith(w, suffix) ==
    /\ Len(w) >= Len(suffix)
    /\ SubSeq(w, Len(w) - Len(suffix) + 1, Len(w)) = suffix

\* /^\w+mod$/ (line 615)
IsModToken(sub) ==
    /\ Len(sub) >= 4
    /\ EndsWith(sub, <<"m","o","d">>)
    /\ \A x \in DOMAIN sub : IsWordChar(sub[x])

\* sub.slice(0, -3) (line 616)
SliceMod(sub) == SubSeq(sub, 1, Len(sub) - 3)

\* /^\w+levels?$/ (line 639)
IsLevelToken(sub) ==
    /\ \A x \in DOMAIN sub : IsWordChar(sub[x])
    /\ \/ Len(sub) >= 6 /\ EndsWith(sub, <<"l","e","v","e","l">>)
       \/ Len(sub) >= 7 /\ EndsWith(sub, <<"l","e","v","e","l","s">>)

\* sub.replace(/levels?$/, "") (line 641)
StripLevel(sub) ==
    IF EndsWith(sub, <<"l","e","v","e","l","s">>) THEN SubSeq(sub, 1, Len(sub) - 6)
    ELSE IF EndsWith(sub, <<"l","e","v","e","l">>) THEN SubSeq(sub, 1, Len(sub) - 5)
    ELSE sub

\* The property names the code spells out (lines 565-569, 645).
proificiencyBonus == <<"p","r","o","i","f","i","c","i","e","n","c","y","B","o","n","u","s">>
proficiencyBonus == <<"p","r","o","f","i","c","i","e","n","c","y","B","o","n","u","s">>
level == <<"l","e","v","e","l">>

----------------------------------------------------------------------------
(* buildCharacter (lines 288-402): the in-memory character.                *)
(* An object is a function from its keys, with the keys' insertion order   *)
(* (the order for-in enumerates them) kept beside it.                      *)

\* The object literal of lines 289-296.
EmptyCharacter(charId) ==
    [id |-> charId,
     atts |-> <<>>, attKeys |-> <<>>,
     skills |-> <<>>, skillKeys |-> <<>>,
     dms |-> <<>>, dmKeys |-> <<>>,
     classes |-> <<>>,
     level |-> Num(0)]

\* Lines 300-314 with add taken from the character of the pass before.
NewAttributeStale(attribute) ==
    [computed |-> FALSE,
     busyComputing |-> FALSE,
     type |-> "attribute",
     attributeType |-> attribute.type,
     base |-> IF Truthy(attribute.baseValue) THEN attribute.baseValue ELSE Num(0),
     decimal |-> attribute.decimal,
     result |-> Num(0),
     mod |-> Num(0),
     add |-> IF attribute.variableName \in DOMAIN char.atts
             THEN char.atts[attribute.variableName].add ELSE Num(0),
     mul |-> Num(1),
     min |-> NegInf,
     max |-> PosInf,
     effects |-> <<>>]

\* Lines 300-314.
NewAttribute(attribute) ==
    [computed |-> FALSE,
     busyComputing |-> FALSE,
     type |-> "attribute",
     attributeType |-> attribute.type,
     base |-> IF Truthy(attribute.baseValue) THEN attribute.baseValue ELSE Num(0),
     decimal |-> attribute.decimal,
     result |-> Num(0),
     mod |-> Num(0),
     add |-> Num(0),
     mul |-> Num(1),
     min |-> NegInf,
     max |-> PosInf,
     effects |-> <<>>]

\* Lines 321-339.
NewSkill(skill) ==
    [computed |-> FALSE,
     busyComputing |-> FALSE,
     type |-> "skill",
     ability |-> skill.ability,
     result |-> Num(0),
     proficiency |-> Num(0),
     add |-> Num(0),
     mul |-> Num(1),
     min |-> NegInf,
     max |-> PosInf,
     advantage |-> Num(0),
     disadvantage |-> Num(0),
     passiveAdd |-> Num(0),
     fail |-> Num(0),
     conditional |-> Num(0),
     effects |-> <<>>,
     proficiencies |-> <<>>]

\* Lines 346-355.
NewDamageMultiplier(damageMultiplier) ==
    [computed |-> FALSE,
     busyComputing |-> FALSE,
     type |-> "damageMultiplier",
     result |-> Num(0),
     immunityCount |-> Num(0),
     ressistanceCount |-> Num(0),
     vulnerabilityCount |-> Num(0),
     effects |-> <<>>]

\* Lines 373-379.
StoredEffect(effect) ==
    [computed |-> FALSE,
     result |-> Num(0),
     operation |-> effect.operation,
     value |-> effect.value,
     calculation |-> effect.calculation]

\* Collection.find(selector): the documents the selector matches, in order.
Find(docs, Matches(_)) == SelectSeq(docs, Matches)

\* Lines 298-316: the first attribute of each variable name is kept.
RECURSIVE AddAttributes(_, _)
AddAttributes(c, docs) ==
    IF docs = <<>> THEN c
    ELSE LET a == Head(docs)
             c1 == IF a.variableName \in DOMAIN c.atts THEN c
                   ELSE [c EXCEPT !.atts = @ @@ (a.variableName :> NewAttribute(a)),
                                  !.attKeys = Append(@, a.variableName)]
         IN AddAttributes(c1, Tail(docs))

\* Lines 319-341.
RECURSIVE AddSkills(_, _)
AddSkills(c, docs) ==
    IF docs = <<>> THEN c
    ELSE LET a == Head(docs)
             c1 == IF a.variableName \in DOMAIN c.skills THEN c
                   ELSE [c EXCEPT !.skills = @ @@ (a.variableName :> NewSkill(a)),
                                  !.skillKeys = Append(@, a.variableName)]
         IN AddSkills(c1, Tail(docs))

\* Lines 344-357.
RECURSIVE AddDamageMultipliers(_, _)
AddDamageMultipliers(c, docs) ==
    IF docs = <<>> THEN c
    ELSE LET a == Head(docs)
             c1 == IF a.variableName \in DOMAIN c.dms THEN c
                   ELSE [c EXCEPT !.dms = @ @@ (a.variableName :> NewDamageMultiplier(a)),
                                  !.dmKeys = Append(@, a.variableName)]
         IN AddDamageMultipliers(c1, Tail(docs))

\* Lines 361-366: the first class of each name is kept and counted.
RECURSIVE AddClasses(_, _)
AddClasses(c, docs) ==
    IF docs = <<>> THEN c
    ELSE LET cls == Head(docs)
             c1 == IF cls.name \in DOMAIN c.classes THEN c
                   ELSE [c EXCEPT !.classes =
                                      [n \in DOMAIN @ \cup {cls.name} |->
                                          IF n = cls.name THEN [level |-> cls.level] ELSE @[n]],
                                  !.level = JsAdd(@, cls.level)]
         IN AddClasses(c1, Tail(docs))

\* Lines 369-389 with the last branch storing the effect under the first
\* attribute instead of ignoring it.
RECURSIVE AddEffectsKept(_, _)
AddEffectsKept(c, docs) ==
    IF docs = <<>> THEN c
    ELSE LET effect == Head(docs)
             storedEffect == StoredEffect(effect)
             c1 == CASE effect.stat \in DOMAIN c.atts ->
                          [c EXCEPT !.atts[effect.stat].effects = Append(@, storedEffect)]
                     [] effect.stat \in DOMAIN c.skills ->
                          [c EXCEPT !.skills[effect.stat].effects = Append(@, storedEffect)]
                     [] effect.stat \in DOMAIN c.dms ->
                          [c EXCEPT !.dms[effect.stat].effects = Append(@, storedEffect)]
                     [] OTHER ->
                          IF c.attKeys = <<>> THEN c
                          ELSE [c EXCEPT !.atts[c.attKeys[1]].effects =
                                             Append(@, storedEffect)]
         IN AddEffectsKept(c1, Tail(docs))

\* Lines 369-389: an effect goes to the attribute, else the skill, else the
\* damage multiplier of its stat name, else nowhere.
RECURSIVE AddEffects(_, _)
AddEffects(c, docs) ==
    IF docs = <<>> THEN c
    ELSE LET effect == Head(docs)
             storedEffect == StoredEffect(effect)
             c1 == CASE effect.stat \in DOMAIN c.atts ->
                          [c EXCEPT !.atts[effect.stat].effects = Append(@, storedEffect)]
                     [] effect.stat \in DOMAIN c.skills ->
                          [c EXCEPT !.skills[effect.stat].effects = Append(@, storedEffect)]
                     [] effect.stat \in DOMAIN c.dms ->
                          [c EXCEPT !.dms[effect.stat].effects = Append(@, storedEffect)]
                     [] OTHER -> c
         IN AddEffects(c1, Tail(docs))

\* Lines 392-400: the callback pushes the variable effect, which no scope
\* of the callback declares: the first proficiency that names a skill of
\* the character raises ReferenceError.
AddProficienciesThrows(c, docs) ==
    \E x \in DOMAIN docs : docs[x].name \in DOMAIN c.skills

buildCharacter(charId, recs) ==
    LET mine(doc) == doc.charId = charId
        enabled(doc) == doc.charId = charId /\ doc.enabled
        enabledSkillOrSave(doc) ==
            doc.charId = charId /\ doc.enabled /\ doc.type \in {"skill", "save"}
        c1 == AddAttributes(EmptyCharacter(charId), Find(recs.attributes, mine))
        c2 == AddSkills(c1, Find(recs.skills, mine))
        c3 == AddDamageMultipliers(c2, Find(recs.damageMultipliers, mine))
        c4 == AddClasses(c3, Find(recs.classes, mine))
        c5 == AddEffects(c4, Find(recs.effects, enabled))
    IN [char |-> c5,
        error |-> IF AddProficienciesThrows(c5, Find(recs.proficiencies, enabledSkillOrSave))
                  THEN "ReferenceError" ELSE "none"]

----------------------------------------------------------------------------
(* The pure parts of the computation.                                      *)

\* _.has(stat, key)
Has(stat, key) == key \in DOMAIN stat

\* applyEffect with base taking the result of the last base effect instead
\* of the largest.
applyEffectLast(effect, stat) ==
    IF effect.operation = "base" /\ "base" \in DOMAIN stat
    THEN [stat |-> [stat EXCEPT !.base = effect.result], error |-> "none"]
    ELSE [stat |-> stat, error |-> "none"]

\* applyEffect (lines 476-533). The operations exclude one another, so the
\* three if-chains of the function are one case distinction. The result is
\* the stat and the error raised, if any.
applyEffect(effect, stat) ==
    LET ok(st) == [stat |-> st, error |-> "none"]
        op == effect.operation
    IN CASE op = "base" ->
              IF ~Has(stat, "base") THEN ok(stat)
              ELSE ok([stat EXCEPT !.base =
                         IF JsGt(effect.result, @) THEN effect.result ELSE @])
         [] op = "add" ->
              IF ~Has(stat, "add") THEN ok(stat)
              ELSE ok([stat EXCEPT !.add = JsAdd(@, effect.result)])
         [] op = "mul" ->
              IF ~Has(stat, "mul") THEN ok(stat)
              ELSE IF stat.type = "damageMultiplier"
                   \* line 490 reads the undeclared variable value
                   THEN [stat |-> stat, error |-> "ReferenceError"]
                   ELSE ok([stat EXCEPT !.mul = JsMul(@, effect.result)])
         [] op = "min" ->
              IF ~Has(stat, "min") THEN ok(stat)
              ELSE ok([stat EXCEPT !.min =
                         IF JsGt(effect.result, @) THEN effect.result ELSE @])
         [] op = "max" ->
              IF ~Has(stat, "max") THEN ok(stat)
              ELSE ok([stat EXCEPT !.max =
                         IF JsLt(effect.result, @) THEN effect.result ELSE @])
         [] op = "advantage" ->
              IF ~Has(stat, "advantage") THEN ok(stat)
              ELSE ok([stat EXCEPT !.advantage = JsAdd(@, Num(1))])
         [] op = "disadvantage" ->
              IF ~Has(stat, "disadvantage") THEN ok(stat)
              ELSE ok([stat EXCEPT !.disadvantage = JsAdd(@, Num(1))])
         [] op = "passiveAdd" ->
              IF ~Has(stat, "passiveAdd") THEN ok(stat)
              ELSE ok([stat EXCEPT !.passiveAdd = JsAdd(@, effect.result)])
         [] op = "fail" ->
              IF ~Has(stat, "fail") THEN ok(stat)
              ELSE ok([stat EXCEPT !.fail = JsAdd(@, Num(1))])
         [] op = "conditional" ->
              IF ~Has(stat, "conditional") THEN ok(stat)
              ELSE ok([stat EXCEPT !.conditional = JsAdd(@, Num(1))])
         [] OTHER -> ok(stat)

\* Lines 549-551 and 582-584: clamp to [min, max].
Clamp(x, stat) ==
    LET r1 == IF JsLt(x, stat.min) THEN stat.min ELSE x
    IN IF JsGt(r1, stat.max) THEN stat.max ELSE r1

\* combineAttribute with the modifier rounded toward zero instead of down.
combineAttributeTruncate(stat) ==
    LET r1 == Clamp(JsMul(JsAdd(stat.base, stat.add), stat.mul), stat)
        r2 == IF ~stat.decimal THEN Floor(r1) ELSE r1
        half == JsDiv(JsSub(r2, Num(10)), Num(2))
    IN IF stat.attributeType = "ability"
       THEN [stat EXCEPT !.result = r2,
                         !.mod = IF NumLt(half, Num(0))
                                 THEN NumMul(Num(-1), Floor(NumMul(Num(-1), half)))
                                 ELSE Floor(half)]
       ELSE [stat EXCEPT !.result = r2]

\* combineAttribute (lines 548-557)
combineAttribute(stat) ==
    LET r1 == Clamp(JsMul(JsAdd(stat.base, stat.add), stat.mul), stat)
        r2 == IF ~stat.decimal THEN Floor(r1) ELSE r1
    IN IF stat.attributeType = "ability"
       THEN [stat EXCEPT !.result = r2,
                         !.mod = Floor(JsDiv(JsSub(r2, Num(10)), Num(2)))]
       ELSE [stat EXCEPT !.result = r2]

\* combineDamageMultiplier (lines 588-597)
combineDamageMultiplier(stat) ==
    IF Truthy(stat.immunityCount) THEN stat
    ELSE IF Truthy(stat.ressistanceCount) /\ ~Truthy(stat.vulnerabilityCount)
         THEN [stat EXCEPT !.result = Rat(1, 2)]
    ELSE IF ~Truthy(stat.ressistanceCount) /\ Truthy(stat.vulnerabilityCount)
         THEN [stat EXCEPT !.result = Num(2)]
    ELSE [stat EXCEPT !.result = Num(1)]

\* Lines 560-563: the proficiency loop of combineSkill.
RECURSIVE MaxProficiency(_, _)
MaxProficiency(proficiencies, proficiency) ==
    IF proficiencies = <<>> THEN proficiency
    ELSE MaxProficiency(Tail(proficiencies),
            IF JsGt(Head(proficiencies).value, proficiency)
            THEN Head(proficiencies).value ELSE proficiency)

\* Line 571: Math.floor(char.level / 4 + 1.75)
DefaultProfBonus(c) == Floor(JsAdd(JsDiv(c.level, Num(4)), Rat(7, 4)))

\* Lines 573-585: the result of a skill from the proficiency bonus and the
\* ability modifier.
SkillResult(stat, profBonus, abilityMod) ==
    LET scaled == JsMul(profBonus, stat.proficiency)
    IN Floor(Clamp(JsMul(JsAdd(JsAdd(abilityMod, scaled), stat.add), stat.mul), stat))

\* math.eval on the substituted text (line 654), for the formulas
\* operand (operator operand)* over + - * /. It raises on a word (an
\* undefined symbol) and on text of another shape (a syntax error).
WellFormed(lexs) ==
    /\ Len(lexs) % 2 = 1
    /\ \A x \in DOMAIN lexs :
          IF x % 2 = 1
          THEN lexs[x].k = "val" /\ lexs[x].v.t \in {"num", "nan", "inf", "ninf"}
          ELSE lexs[x].k = "op"

RECURSIVE EvalFrom(_, _, _, _)
EvalFrom(lexs, pos, sum, term) ==
    IF pos > Len(lexs) THEN NumAdd(sum, term)
    ELSE LET o == lexs[pos].w[1]
             x == lexs[pos + 1].v
         IN CASE o = "+" -> EvalFrom(lexs, pos + 2, NumAdd(sum, term), x)
              [] o = "-" -> EvalFrom(lexs, pos + 2, NumAdd(sum, term), NumMul(Num(-1), x))
              [] o = "*" -> EvalFrom(lexs, pos + 2, sum, NumMul(term, x))
              [] OTHER -> EvalFrom(lexs, pos + 2, sum, NumDiv(term, x))

mathEval(lexs) ==
    IF WellFormed(lexs)
    THEN [throws |-> FALSE, value |-> EvalFrom(lexs, 2, Num(0), lexs[1].v)]
    ELSE [throws |-> TRUE, value |-> Undefined]

----------------------------------------------------------------------------
(* The call stack. A frame is one activation of a function; the top of the *)
(* stack is its last element. A stat or effect object is named by its      *)
(* place in the character (objects are shared by reference).               *)

CharId == "c1"

Ref(kind, name) == [kind |-> kind, name |-> name]
UndefinedRef == [kind |-> "undefined", name |-> <<>>]

\* char.atts[name], char.skills[name], char.dms[name]: undefined if absent.
Lookup(c, kind, name) ==
    IF name \in DOMAIN c[kind] THEN Ref(kind, name) ELSE UndefinedRef

StatOf(c, ref) == c[ref.kind][ref.name]

StatRefs(c) ==
    {Ref("atts", n) : n \in DOMAIN c.atts}
    \cup {Ref("skills", n) : n \in DOMAIN c.skills}
    \cup {Ref("dms", n) : n \in DOMAIN c.dms}

\* The order in which the three for-in loops of computeCharacter visit the
\* stats (lines 409-420).
StatOrder(c) ==
    [x \in DOMAIN c.attKeys |-> Ref("atts", c.attKeys[x])]
    \o [x \in DOMAIN c.skillKeys |-> Ref("skills", c.skillKeys[x])]
    \o [x \in DOMAIN c.dmKeys |-> Ref("dms", c.dmKeys[x])]

NoRead == [ref |-> UndefinedRef, field |-> "none"]

Frame(fn, stat, eff, string) ==
    [fn |-> fn, pc |-> "entry", stat |-> stat, k |-> 0, eff |-> eff,
     string |-> string, out |-> <<>>, rd |-> NoRead,
     profBonus |-> Undefined, rv |-> Undefined]

Top == stack[Len(stack)]
Running(fn, pc) == status = "running" /\ stack # <<>> /\ Top.fn = fn /\ Top.pc = pc

\* An uncaught error unwinds the whole stack: no function of the pass
\* catches anything but the errors of math.eval.
Throw(error) ==
    /\ status' = error
    /\ stack' = <<>>

\* The top frame becomes caller and calls callee; a full stack raises
\* RangeError.
Call(caller, callee) ==
    IF Len(stack) >= MaxDepth
    THEN Throw("RangeError")
    ELSE /\ stack' = Append([stack EXCEPT ![Len(stack)] = caller], callee)
         /\ status' = status

\* The top frame returns value to its caller.
Return(value) ==
    /\ stack' = [x \in 1..(Len(stack) - 1) |->
                    IF x = Len(stack) - 1 THEN [stack[x] EXCEPT !.rv = value]
                    ELSE stack[x]]
    /\ status' = status

Goto(frame) ==
    /\ stack' = [stack EXCEPT ![Len(stack)] = frame]
    /\ status' = status

NoLog(c) == [r \in StatRefs(c) |-> [loops |-> 0, combines |-> 0]]

----------------------------------------------------------------------------
(* computeCharacterById (lines 187-192), called with the character's id.   *)

\* buildCharacter, and the call of computeCharacter on its result.
Build ==
    /\ status = "idle"
    /\ LET b == buildCharacter(CharId, records)
       IN /\ char' = b.char
          /\ log' = NoLog(b.char)
          /\ IF b.error # "none"
             THEN Throw(b.error)
             ELSE /\ status' = "running"
                  /\ stack' = <<Frame("computeCharacter", UndefinedRef, 0, Undefined)>>
    /\ updates' = <<>>
    /\ UNCHANGED <<records, i, prev>>

\* computeCharacter (lines 407-422): the next stat of the three loops, or
\* the return of the character to computeCharacterById, which writes it.
ComputeCharacter ==
    /\ Running("computeCharacter", "entry")
    /\ LET order == StatOrder(char)
       IN IF Top.k < Len(order)
          THEN Call([Top EXCEPT !.k = @ + 1],
                    Frame("computeStat", order[Top.k + 1], 0, Undefined))
          ELSE /\ status' = "writing"
               /\ stack' = <<>>
    /\ UNCHANGED <<records, char, i, prev, log, updates>>

\* computeStat with the stat marked busy computing before its effect loop,
\* as the comment of lines 174-184 describes it.
ComputeStatMarking ==
    /\ Running("computeStat", "entry")
    /\ LET ref == Top.stat
       IN IF ref = UndefinedRef
          THEN Throw("TypeError") /\ UNCHANGED char
          ELSE LET stat == StatOf(char, ref)
               IN IF stat.computed
                  THEN Return(Undefined) /\ UNCHANGED char
                  ELSE IF stat.busyComputing
                  THEN /\ char' = [char EXCEPT ![ref.kind][ref.name] =
                                      [stat EXCEPT !.computed = TRUE,
                                                   !.result = NaN,
                                                   !.busyComputing = FALSE]]
                       /\ Return(Undefined)
                  ELSE /\ char' = [char EXCEPT ![ref.kind][ref.name].busyComputing = TRUE]
                       /\ Goto([Top EXCEPT !.pc = "loop"])
    /\ UNCHANGED <<records, i, prev, log, updates>>

\* computeStat, lines 427-439: the two early returns.
ComputeStat ==
    /\ Running("computeStat", "entry")
    /\ LET ref == Top.stat
       IN IF ref = UndefinedRef
          THEN \* stat.computed of undefined
               Throw("TypeError") /\ UNCHANGED char
          ELSE LET stat == StatOf(char, ref)
               IN IF stat.computed
                  THEN Return(Undefined) /\ UNCHANGED char
                  ELSE IF stat.busyComputing
                  THEN /\ char' = [char EXCEPT ![ref.kind][ref.name] =
                                      [stat EXCEPT !.computed = TRUE,
                                                   !.result = NaN,
                                                   !.busyComputing = FALSE]]
                       /\ Return(Undefined)
                  ELSE Goto([Top EXCEPT !.pc = "loop"]) /\ UNCHANGED char
    /\ UNCHANGED <<records, i, prev, log, updates>>

\* computeStat, lines 442-443: for (i in stat.effects) assigns the next
\* index to the global i and calls computeEffect(stat.effects[i]); after
\* the last index the loop ends.
ComputeStatLoop ==
    /\ Running("computeStat", "loop")
    /\ LET ref == Top.stat
           stat == StatOf(char, ref)
       IN IF Top.k < Len(stat.effects)
          THEN /\ i' = Top.k
               /\ Call([Top EXCEPT !.pc = "apply", !.k = @ + 1],
                       Frame("computeEffect", ref, Top.k, Undefined))
               /\ log' = IF Top.k = 0
                         THEN [log EXCEPT ![ref].loops = @ + 1] ELSE log
          ELSE /\ Goto([Top EXCEPT !.pc = "combine"])
               /\ log' = IF Top.k = 0
                         THEN [log EXCEPT ![ref].loops = @ + 1] ELSE log
               /\ i' = i
    /\ UNCHANGED <<records, char, prev, updates>>

\* stat.effects[idx]: arrays are indexed from 0.
HasEffect(stat, idx) == idx + 1 \in DOMAIN stat.effects
EffectAt(stat, idx) == stat.effects[idx + 1]

\* computeStat, line 445: applyEffect(stat.effects[i], stat).
ComputeStatApply ==
    /\ Running("computeStat", "apply")
    /\ LET ref == Top.stat
           stat == StatOf(char, ref)
       IN IF ~HasEffect(stat, i)
          THEN \* stat.effects[i] is undefined: effect.operation raises
               Throw("TypeError") /\ UNCHANGED char
          ELSE LET a == applyEffect(EffectAt(stat, i), stat)
               IN IF a.error # "none"
                  THEN Throw(a.error) /\ UNCHANGED char
                  ELSE /\ char' = [char EXCEPT ![ref.kind][ref.name] = a.stat]
                       /\ Goto([Top EXCEPT !.pc = "loop"])
    /\ UNCHANGED <<records, i, prev, log, updates>>

\* combineStat (lines 538-546) for an attribute or a damage multiplier.
CombineStat ==
    /\ Running("computeStat", "combine")
    /\ LET ref == Top.stat
           stat == StatOf(char, ref)
       IN /\ stat.type # "skill"
          /\ char' = [char EXCEPT ![ref.kind][ref.name] =
                         IF stat.type = "attribute" THEN combineAttribute(stat)
                         ELSE IF stat.type = "damageMultiplier"
                              THEN combineDamageMultiplier(stat)
                              ELSE stat]
          /\ log' = [log EXCEPT ![ref].combines = @ + 1]
          /\ Goto([Top EXCEPT !.pc = "finish"])
    /\ UNCHANGED <<records, i, prev, updates>>

\* combineSkill (lines 559-586), in the steps between its calls of
\* computeStat.
CombineSkill ==
    /\ status = "running" /\ stack # <<>> /\ Top.fn = "computeStat"
    /\ Top.pc \in {"combine", "profBonus", "ability", "skillResult"}
    /\ LET ref == Top.stat
           stat == StatOf(char, ref)
       IN /\ stat.type = "skill"
          /\ CASE Top.pc = "combine" ->
                  \* lines 560-563
                  /\ char' = [char EXCEPT ![ref.kind][ref.name].proficiency =
                                 MaxProficiency(stat.proficiencies, @)]
                  /\ i' = IF stat.proficiencies = <<>> THEN i
                          ELSE Len(stat.proficiencies) - 1
                  /\ log' = [log EXCEPT ![ref].combines = @ + 1]
                  \* lines 565-572
                  /\ IF proificiencyBonus \in DOMAIN char.skills
                     THEN IF proficiencyBonus \notin DOMAIN char.skills
                          THEN Throw("TypeError")
                          ELSE IF ~char.skills[proficiencyBonus].computed
                          THEN Call([Top EXCEPT !.pc = "profBonus"],
                                    Frame("computeStat",
                                          Ref("skills", proficiencyBonus), 0, Undefined))
                          ELSE Goto([Top EXCEPT !.pc = "profBonus"])
                     ELSE Goto([Top EXCEPT !.pc = "ability",
                                           !.profBonus = DefaultProfBonus(char)])
               [] Top.pc = "profBonus" ->
                  \* line 569
                  /\ Goto([Top EXCEPT !.pc = "ability",
                                      !.profBonus = char.skills[proficiencyBonus].result])
                  /\ UNCHANGED <<char, i, log>>
               [] Top.pc = "ability" ->
                  \* lines 576-579
                  /\ IF stat.ability # <<>> /\ stat.ability \in DOMAIN char.atts
                        /\ ~char.atts[stat.ability].computed
                     THEN Call([Top EXCEPT !.pc = "skillResult"],
                               Frame("computeStat", Ref("atts", stat.ability), 0, Undefined))
                     ELSE Goto([Top EXCEPT !.pc = "skillResult"])
                  /\ UNCHANGED <<char, i, log>>
               [] OTHER ->
                  \* lines 575-585
                  /\ LET abilityMod ==
                             IF stat.ability # <<>> /\ stat.ability \in DOMAIN char.atts
                             THEN char.atts[stat.ability].mod ELSE Num(0)
                     IN char' = [char EXCEPT ![ref.kind][ref.name].result =
                                    SkillResult(stat, Top.profBonus, abilityMod)]
                  /\ Goto([Top EXCEPT !.pc = "finish"])
                  /\ UNCHANGED <<i, log>>
    /\ UNCHANGED <<records, prev, updates>>

\* computeStat with line 453 setting the flag instead of clearing it.
ComputeStatFinishBusy ==
    /\ Running("computeStat", "finish")
    /\ LET ref == Top.stat
       IN char' = [char EXCEPT ![ref.kind][ref.name].computed = TRUE,
                               ![ref.kind][ref.name].busyComputing = TRUE]
    /\ Return(Undefined)
    /\ UNCHANGED <<records, i, prev, log, updates>>

\* computeStat, lines 452-453.
ComputeStatFinish ==
    /\ Running("computeStat", "finish")
    /\ LET ref == Top.stat
       IN char' = [char EXCEPT ![ref.kind][ref.name].computed = TRUE,
                               ![ref.kind][ref.name].busyComputing = FALSE]
    /\ Return(Undefined)
    /\ UNCHANGED <<records, i, prev, log, updates>>

\* computeEffect (lines 459-471) up to its call of evaluateCalculation.
ComputeEffect ==
    /\ Running("computeEffect", "entry")
    /\ LET ref == Top.stat
           stat == StatOf(char, ref)
           effect == EffectAt(stat, Top.eff)
           done(result) ==
               /\ char' = [char EXCEPT ![ref.kind][ref.name].effects[Top.eff + 1] =
                              [effect EXCEPT !.result = result, !.computed = TRUE]]
               /\ Return(Undefined)
       IN IF effect.computed
          THEN Return(Undefined) /\ UNCHANGED char
          ELSE IF IsFinite(effect.value) THEN done(effect.value)
          ELSE IF effect.operation = "conditional" THEN done(effect.calculation)
          ELSE IF effect.operation \in {"advantage", "disadvantage", "fail"}
               THEN done(Num(1))
          ELSE IF effect.calculation.t = "text"
               THEN /\ Call([Top EXCEPT !.pc = "result"],
                            Frame("evaluateCalculation", UndefinedRef, 0, effect.calculation))
                    /\ UNCHANGED char
          ELSE done(effect.result)
    /\ UNCHANGED <<records, i, prev, log, updates>>

\* computeEffect, lines 468-470: the value evaluateCalculation returned.
ComputeEffectResult ==
    /\ Running("computeEffect", "result")
    /\ LET ref == Top.stat
       IN char' = [char EXCEPT ![ref.kind][ref.name].effects[Top.eff + 1].result = Top.rv,
                               ![ref.kind][ref.name].effects[Top.eff + 1].computed = TRUE]
    /\ Return(Undefined)
    /\ UNCHANGED <<records, i, prev, log, updates>>

\* What the replace callback (lines 604-650) does with the token sub:
\* the stat to compute first (call), the value to read then (rd), or the
\* replacement it returns at once (lexeme).
Resolve(c, sub) ==
    LET now(lexeme) == [call |-> FALSE, arg |-> UndefinedRef, rd |-> NoRead,
                        lexeme |-> lexeme]
        stat(arg, ref, field, computed) ==
            [call |-> ~computed, arg |-> arg,
             rd |-> [ref |-> ref, field |-> field], lexeme |-> Word(sub)]
    IN IF sub \in DOMAIN c.atts
       THEN stat(Ref("atts", sub), Ref("atts", sub), "result", c.atts[sub].computed)
       ELSE IF IsModToken(sub) /\ SliceMod(sub) \in DOMAIN c.atts
       THEN \* line 619 passes char.atts[sub], not char.atts[slice]
            stat(Lookup(c, "atts", sub), Ref("atts", SliceMod(sub)), "mod",
                 c.atts[SliceMod(sub)].computed)
       ELSE IF sub \in DOMAIN c.skills
       THEN stat(Ref("skills", sub), Ref("skills", sub), "result", c.skills[sub].computed)
       ELSE IF sub \in DOMAIN c.dms
       THEN stat(Ref("dms", sub), Ref("dms", sub), "result", c.dms[sub].computed)
       ELSE IF IsLevelToken(sub)
       THEN LET className == StripLevel(sub)
            IN IF className \in DOMAIN c.classes /\ Truthy(c.classes[className].level)
               THEN now(Val(c.classes[className].level))
               ELSE now(Word(sub))
       ELSE IF sub = level THEN now(Val(c.level))
       ELSE now(Word(sub))

\* The value the callback returns for a stat (lines 612, 621, 629, 636).
ReadStat(c, rd) ==
    LET stat == StatOf(c, rd.ref)
    IN IF rd.field = "mod"
       THEN IF Truthy(stat.mod) THEN stat.mod ELSE NaN
       ELSE stat.result

\* String.prototype.replace inserts the returned value as text.
Substitute(out, value) ==
    IF value.t = "text" THEN out \o value.s ELSE Append(out, Val(value))

\* evaluateCalculation, lines 601-650: the early return of an empty string,
\* and the replace callback on the next lexeme of the string.
EvaluateCalculation ==
    /\ Running("evaluateCalculation", "entry")
    /\ LET lexs == Top.string.s
       IN /\ Top.k < Len(lexs) \/ lexs = <<>>
          /\ IF lexs = <<>>
             THEN Return(Top.string)
             ELSE LET lx == lexs[Top.k + 1]
                  IN IF lx.k # "word" \/ ~MatchesToken(lx.w)
                     THEN Goto([Top EXCEPT !.k = @ + 1, !.out = Append(@, lx)])
                     ELSE LET r == Resolve(char, toLowerCase(lx.w))
                          IN IF r.rd = NoRead
                             THEN Goto([Top EXCEPT !.k = @ + 1,
                                                   !.out = Append(@, r.lexeme)])
                             ELSE IF r.call
                             THEN Call([Top EXCEPT !.pc = "substitute", !.rd = r.rd],
                                       Frame("computeStat", r.arg, 0, Undefined))
                             ELSE Goto([Top EXCEPT !.k = @ + 1,
                                                   !.out = Substitute(@, ReadStat(char, r.rd))])
    /\ UNCHANGED <<records, char, i, prev, log, updates>>

\* The callback after computeStat returned: the return statement.
EvaluateCalculationSubstitute ==
    /\ Running("evaluateCalculation", "substitute")
    /\ Goto([Top EXCEPT !.pc = "entry", !.k = @ + 1, !.rd = NoRead,
                        !.out = Substitute(@, ReadStat(char, Top.rd))])
    /\ UNCHANGED <<records, char, i, prev, log, updates>>

\* evaluateCalculation, lines 653-658: math.eval, or the substituted text
\* when it raises.
EvaluateCalculationEval ==
    /\ Running("evaluateCalculation", "entry")
    /\ Top.string.s # <<>>
    /\ Top.k = Len(Top.string.s)
    /\ LET r == mathEval(Top.out)
       IN Return(IF r.throws THEN Text(Top.out) ELSE r.value)
    /\ UNCHANGED <<records, char, i, prev, log, updates>>

----------------------------------------------------------------------------
(* writeCharacter (lines 197-282): the update operations it issues. An     *)
(* operation is the collection, the variableName of its filter, the fields *)
(* under $set and the fields beside $set in the update document.           *)

NoFields == [f \in {} |-> Undefined]

UpdateMany(collection, variableName, set, beside) ==
    [collection |-> collection, variableName |-> variableName,
     set |-> set, beside |-> beside]

\* writeAttributes, lines 207-221
writeAttributes(c) ==
    [x \in DOMAIN c.attKeys |->
        LET att == c.atts[c.attKeys[x]]
        IN UpdateMany("Attributes", c.attKeys[x],
                      [f \in {"value"} |-> att.result],
                      IF Truthy(att.mod)
                      THEN [f \in {"mod"} |-> att.mod] ELSE NoFields)]

\* writeSkills, lines 234-249
writeSkills(c) ==
    [x \in DOMAIN c.skillKeys |->
        LET skill == c.skills[c.skillKeys[x]]
        IN UpdateMany("Skills", c.skillKeys[x],
                      [f \in {"value", "advantage", "passiveBonus", "proficiency",
                              "conditionalBenefits", "fail"} |->
                          CASE f = "value" -> skill.result
                            [] f = "advantage" -> skill.advantage
                            [] f = "passiveBonus" -> skill.passiveAdd
                            [] f = "proficiency" -> skill.proficiency
                            [] f = "conditionalBenefits" -> skill.conditional
                            [] OTHER -> skill.fail],
                      NoFields)]

\* writeDamageMultipliers, lines 263-274
writeDamageMultipliers(c) ==
    [x \in DOMAIN c.dmKeys |->
        UpdateMany("DamageMultipliers", c.dmKeys[x],
                   [f \in {"value"} |-> c.dms[c.dmKeys[x]].result], NoFields)]

\* writeCharacter, lines 197-202
writeCharacter(c) ==
    writeAttributes(c) \o writeSkills(c) \o writeDamageMultipliers(c)
    \o <<UpdateMany("Characters", <<>>, [f \in {"level"} |-> c.level], NoFields)>>

\* computeCharacterById, lines 190-191: the character computeCharacter
\* returned is written and returned.
WriteCharacter ==
    /\ status = "writing"
    /\ updates' = writeCharacter(char)
    /\ status' = "done"
    /\ UNCHANGED <<records, char, stack, i, prev, log>>

----------------------------------------------------------------------------
(* The documents of the characters the model explores.                     *)

str == <<"s","t","r">>
dex == <<"d","e","x">>
ath == <<"a","t","h">>
fire == <<"f","i","r","e">>
foo == <<"f","o","o">>
ghost == <<"g","h","o","s","t">>
fighter == <<"f","i","g","h","t","e","r">>
strMod == <<"s","t","r","M","o","d">>
Dex == <<"D","e","x">>
wizard == <<"w","i","z","a","r","d">>
Fighter == <<"F","i","g","h","t","e","r">>
fighterLevel == <<"f","i","g","h","t","e","r","L","e","v","e","l">>
fighterLevels == <<"f","i","g","h","t","e","r","L","e","v","e","l","s">>

AttributeDoc(name, type, baseValue) ==
    [charId |-> CharId, variableName |-> name, type |-> type,
     baseValue |-> baseValue, decimal |-> FALSE]
SkillDoc(name, ability) == [charId |-> CharId, variableName |-> name, ability |-> ability]
DamageMultiplierDoc(name) == [charId |-> CharId, variableName |-> name]
ClassDoc(name, lvl) == [charId |-> CharId, name |-> name, level |-> lvl]
EffectDoc(stat, operation, value, calculation) ==
    [charId |-> CharId, enabled |-> TRUE, stat |-> stat, operation |-> operation,
     value |-> value, calculation |-> calculation]
ProficiencyDoc(name, enabled, value) ==
    [charId |-> CharId, enabled |-> enabled, type |-> "skill", name |-> name,
     value |-> value]

\* Formulas: a reference to each stat, to an ability modifier, to an
\* unknown name, a syntax error and a division by zero.
Reference(name) == Text(<<Word(name)>>)
StrModPlus2 == Text(<<Word(strMod), Op("+"), Val(Num(2))>>)
UnknownToken == Text(<<Word(foo), Op("+"), Val(Num(1))>>)
SyntaxError == Text(<<Val(Num(2)), Op("+")>>)
DivisionByZero == Text(<<Val(Num(1)), Op("/"), Val(Num(0))>>)

StatNames == {str, dex, ath, fire}
NumericOperations == {"base", "add", "mul", "min", "max", "passiveAdd"}
CountingOperations == {"advantage", "disadvantage", "fail", "conditional"}
Formulas == {Reference(n) : n \in StatNames}
            \cup {StrModPlus2, UnknownToken, SyntaxError, DivisionByZero}

\* The first effect of a character: any operation on any stat.
FirstEffects ==
    {EffectDoc(n, o, Undefined, f) : n \in StatNames, o \in NumericOperations, f \in Formulas}
    \cup {EffectDoc(n, o, Num(2), Undefined) : n \in StatNames, o \in NumericOperations}
    \cup {EffectDoc(n, o, Undefined, Reference(str)) : n \in StatNames, o \in CountingOperations}

\* Its further effects.
SecondEffects ==
    {<<>>, <<EffectDoc(dex, "add", Num(2), Undefined)>>,
           <<EffectDoc(dex, "add", Undefined, Reference(str))>>}
ThirdEffects ==
    {<<>>, <<EffectDoc(dex, "mul", Num(2), Undefined)>>,
           <<EffectDoc(str, "add", Num(1), Undefined)>>}

BaseValues == {Num(8), Num(10), Num(15)}

Documents(attributes, skills, effects, proficiencies) ==
    [attributes |-> attributes,
     skills |-> skills,
     damageMultipliers |-> <<DamageMultiplierDoc(fire)>>,
     classes |-> <<ClassDoc(fighter, Num(5))>>,
     effects |-> effects,
     proficiencies |-> proficiencies]

\* Characters with two attributes, a skill and a damage multiplier, and up
\* to three effects.
EffectCharacters ==
    {Documents(<<AttributeDoc(str, "ability", Num(15)), AttributeDoc(dex, "stat", Num(3))>>,
               <<SkillDoc(ath, str)>>, <<e1>> \o e2 \o e3, <<>>) :
        e1 \in FirstEffects, e2 \in SecondEffects, e3 \in ThirdEffects}

\* Characters whose ability has a negative, zero or positive modifier and
\* is referenced by its modifier.
ModifierCharacters ==
    {Documents(<<AttributeDoc(str, "ability", b), AttributeDoc(dex, "stat", Num(3))>>,
               <<SkillDoc(ath, str)>>,
               <<EffectDoc(n, "add", Undefined, StrModPlus2)>>, <<>>) :
        b \in BaseValues, n \in StatNames}

\* Characters with a proficiency document.
ProficiencyCharacters ==
    {Documents(<<AttributeDoc(str, "ability", Num(15))>>, <<SkillDoc(ath, str)>>,
               e, <<ProficiencyDoc(n, en, Num(1))>>) :
        n \in {ath, ghost}, en \in BOOLEAN,
        e \in {<<>>, <<EffectDoc(ath, "add", Num(2), Undefined)>>}}

\* Characters with a skill named proficiencyBonus, or named as line 565
\* spells it.
BonusCharacters ==
    {Documents(<<AttributeDoc(str, "ability", Num(15))>>, sk,
               <<EffectDoc(proficiencyBonus, "add", Num(3), Undefined),
                 EffectDoc(proificiencyBonus, "add", Num(4), Undefined)>> \o e, <<>>) :
        sk \in {<<SkillDoc(ath, str), SkillDoc(proficiencyBonus, <<>>)>>,
                <<SkillDoc(proficiencyBonus, <<>>), SkillDoc(ath, str)>>,
                <<SkillDoc(ath, str), SkillDoc(proificiencyBonus, <<>>)>>,
                <<SkillDoc(ath, str), SkillDoc(proificiencyBonus, <<>>),
                  SkillDoc(proficiencyBonus, <<>>)>>},
        e \in {<<>>, <<EffectDoc(ath, "add", Num(2), Undefined)>>}}

\* Characters whose damage multiplier has one or two of the effects that
\* mark an immunity (mul 0), a resistance (mul 0.5) or a vulnerability
\* (mul 2).
Markers == {EffectDoc(fire, "mul", v, Undefined) : v \in {Num(0), Rat(1, 2), Num(2)}}

DamageCharacters ==
    {Documents(<<AttributeDoc(str, "ability", Num(15))>>, <<>>, e, <<>>) :
        e \in {<<m>> : m \in Markers} \cup {<<m1, m2>> : m1 \in Markers, m2 \in Markers}}

\* Characters with no class, one class, two classes, two documents of one
\* class, a class of level 0 and a class whose name has a capital letter,
\* and a formula that names the class level or the total level.
ClassLists ==
    {<<>>, <<ClassDoc(fighter, Num(3))>>,
     <<ClassDoc(fighter, Num(3)), ClassDoc(wizard, Num(2))>>,
     <<ClassDoc(fighter, Num(3)), ClassDoc(fighter, Num(2))>>,
     <<ClassDoc(fighter, Num(0))>>,
     <<ClassDoc(Fighter, Num(3))>>}

LevelPlus1(token) == Text(<<Word(token), Op("+"), Val(Num(1))>>)
LevelFormulas == {LevelPlus1(fighterLevel), LevelPlus1(fighterLevels), LevelPlus1(level)}

ClassCharacters ==
    {[Documents(<<AttributeDoc(dex, "stat", Num(3))>>, <<>>,
                <<EffectDoc(dex, "add", Undefined, f)>>, <<>>)
        EXCEPT !.classes = cl] :
        cl \in ClassLists, f \in LevelFormulas}

\* Characters with one ability, decimal or not, whose result is fractional,
\* clamped, or met by an effect with a blank or an ill-formed formula.
Blank == Text(<<>>)

AttributeEffects ==
    {EffectDoc(dex, "mul", Rat(1, 2), Undefined),
     EffectDoc(dex, "max", Num(12), Undefined),
     EffectDoc(dex, "min", Num(12), Undefined),
     EffectDoc(dex, "max", Undefined, Blank),
     EffectDoc(dex, "add", Undefined, SyntaxError),
     EffectDoc(dex, "add", Num(-1), Undefined)}

AttributeCharacters ==
    {Documents(<<[AttributeDoc(dex, "ability", b) EXCEPT !.decimal = d]>>, <<>>,
               <<e>>, <<>>) :
        b \in {Num(9), Num(10), Num(14)}, d \in BOOLEAN, e \in AttributeEffects}

\* Characters with an effect on a stat they do not have, among effects on
\* stats they have.
DanglingEffects ==
    {EffectDoc(ghost, "add", Num(2), Undefined),
     EffectDoc(ghost, "base", Undefined, Reference(str)),
     EffectDoc(ghost, "add", Undefined, Reference(ghost))}

DanglingCharacters ==
    {Documents(<<AttributeDoc(str, "ability", Num(15)), AttributeDoc(dex, "stat", Num(3))>>,
               <<SkillDoc(ath, str)>>, e, <<>>) :
        e \in UNION {{<<g>>, <<g, EffectDoc(dex, "add", Num(2), Undefined)>>,
                       <<EffectDoc(dex, "base", Undefined, Reference(str)), g,
                         EffectDoc(ath, "add", Num(1), Undefined)>>} :
                      g \in DanglingEffects}}

\* Characters with an attribute whose variable name has a capital letter
\* and, or not, a skill that shares the name of an attribute, and a skill
\* with an effect whose formula is the variable name of a stat.
CaseCharacters ==
    {Documents(<<AttributeDoc(str, "ability", Num(15)), AttributeDoc(Dex, "stat", Num(3))>>,
               sk, <<EffectDoc(ath, "add", Undefined, Reference(n))>>, <<>>) :
        sk \in {<<SkillDoc(ath, <<>>)>>, <<SkillDoc(ath, <<>>), SkillDoc(str, <<>>)>>,
                <<SkillDoc(str, <<>>), SkillDoc(ath, <<>>)>>},
        n \in {str, Dex, fire}}

Characters ==
    CaseCharacters \cup EffectCharacters \cup ModifierCharacters \cup ProficiencyCharacters \cup BonusCharacters
    \cup DamageCharacters \cup ClassCharacters \cup AttributeCharacters
    \cup DanglingCharacters

----------------------------------------------------------------------------

NoPass == [status |-> "none", char |-> EmptyCharacter(CharId), kind |-> "none"]

Init ==
    /\ records \in Characters
    /\ char = EmptyCharacter(CharId)
    /\ stack = <<>>
    /\ i = -1
    /\ status = "idle"
    /\ prev = NoPass
    /\ log = <<>>
    /\ updates = <<>>

Reverse(seq) == [x \in DOMAIN seq |-> seq[Len(seq) + 1 - x]]

Finished == status \notin {"idle", "running", "writing"}

\* A second pass over the same documents, which the cursors may return in
\* another order.
Recompute ==
    /\ Finished
    /\ prev = NoPass
    /\ \E ra, rs, re \in BOOLEAN :
          records' = [records EXCEPT
                         !.attributes = IF ra THEN Reverse(@) ELSE @,
                         !.skills = IF rs THEN Reverse(@) ELSE @,
                         !.effects = IF re THEN Reverse(@) ELSE @]
    /\ prev' = [status |-> status, char |-> char,
                kind |-> IF records' = records THEN "same" ELSE "reordered"]
    /\ status' = "idle"
    /\ UNCHANGED <<char, stack, i, log, updates>>

\* The effect documents whose stat is an attribute, a skill or a damage
\* multiplier of the character.
HasTarget(recs, effect) ==
    \E kind \in {"attributes", "skills", "damageMultipliers"} :
        \E x \in DOMAIN recs[kind] : recs[kind][x].variableName = effect.stat

\* A second pass after the effect documents that name no stat of the
\* character were removed.
RecomputeWithout ==
    /\ Finished
    /\ prev = NoPass
    /\ \E x \in DOMAIN records.effects : ~HasTarget(records, records.effects[x])
    /\ records' = [records EXCEPT
                      !.effects = SelectSeq(@, LAMBDA e : HasTarget(records, e))]
    /\ prev' = [status |-> status, char |-> char, kind |-> "without"]
    /\ status' = "idle"
    /\ UNCHANGED <<char, stack, i, log, updates>>

Next ==
    \/ Build
    \/ ComputeCharacter
    \/ ComputeStat
    \/ ComputeStatLoop
    \/ ComputeStatApply
    \/ CombineStat
    \/ CombineSkill
    \/ ComputeStatFinish
    \/ ComputeEffect
    \/ ComputeEffectResult
    \/ EvaluateCalculation
    \/ EvaluateCalculationSubstitute
    \/ EvaluateCalculationEval
    \/ Recompute
    \/ RecomputeWithout
    \/ WriteCharacter

Spec == Init /\ [][Next]_vars

----------------------------------------------------------------------------
(* What the claims speak of.                                               *)

\* buildCharacter raised, so computeCharacter was not called.
BuildThrows == buildCharacter(CharId, records).error # "none"

\* computeCharacter was called and the pass is over, by a return or by an
\* uncaught error.
PassOver == Finished /\ ~BuildThrows

\* The number of activations of computeStat(stat) on the call stack.
Activations(ref) ==
    Cardinality({x \in DOMAIN stack : stack[x].fn = "computeStat" /\ stack[x].stat = ref})

\* An effect whose formula computeEffect hands to evaluateCalculation.
Evaluated(effect) ==
    /\ ~IsFinite(effect.value)
    /\ effect.operation \notin CountingOperations
    /\ effect.calculation.t = "text"

\* The stats the formulas of a stat's effects refer to by their variable
\* names.
FormulaRefs(c, ref) ==
    LET effects == StatOf(c, ref).effects
    IN {Resolve(c, toLowerCase(effects[x].calculation.s[y].w)).rd.ref :
           <<x, y>> \in {p \in (DOMAIN effects) \X (1..3) :
                            /\ Evaluated(effects[p[1]])
                            /\ p[2] \in DOMAIN effects[p[1]].calculation.s
                            /\ effects[p[1]].calculation.s[p[2]].k = "word"
                            /\ MatchesToken(effects[p[1]].calculation.s[p[2]].w)
                            /\ Resolve(c, toLowerCase(effects[p[1]].calculation.s[p[2]].w)).rd.field
                                  = "result"}}

RECURSIVE ReachFrom(_, _, _)
ReachFrom(c, refs, n) ==
    IF n = 0 THEN refs
    ELSE ReachFrom(c, refs \cup UNION {FormulaRefs(c, r) : r \in refs}, n - 1)

\* The stat lies on a cycle of formula references.
OnCycle(c, ref) == ref \in ReachFrom(c, FormulaRefs(c, ref), Cardinality(StatRefs(c)))

----------------------------------------------------------------------------
(* The claims.                                                             *)

\* C1: computeCharacter terminates for every character, cyclic formulas
\* included: the recursion computeStat -> computeEffect ->
\* evaluateCalculation -> computeStat is bounded, so the call stack is never
\* exhausted and no stat has more than two activations of computeStat at a
\* time (the one that computes it and the re-entrant one that detects the
\* cycle).
C1_RecursionBounded ==
    /\ status # "RangeError"
    /\ \A ref \in StatRefs(char) : Activations(ref) <= 2

\* C2: when the pass over a character is over, every stat that lies on a
\* cycle of formula references has result NaN, whatever the operation of
\* the effect that carries the reference.
C2_CycleGivesNaN ==
    PassOver => \A ref \in StatRefs(char) :
                    OnCycle(char, ref) => StatOf(char, ref).result = NaN

C4_CompleteResultSet ==
    PassOver => /\ status = "done"
                /\ \A ref \in StatRefs(char) :
                      StatOf(char, ref).computed /\ ~StatOf(char, ref).busyComputing

\* C5: evaluateCalculation never raises: while an activation of it is on
\* the call stack, no step ends the pass with an error.
C5_NeverRaises ==
    [][(status = "running" /\ \E x \in DOMAIN stack : stack[x].fn = "evaluateCalculation")
          => status' \in {"running", "done"}]_vars

\* C6: within one pass the effect list of each stat is iterated at most
\* once and its combiner runs at most once.
C6_AtMostOnce ==
    \A ref \in DOMAIN log : log[ref].loops <= 1 /\ log[ref].combines <= 1

\* C7: in every state of a pass no stat has computed = true and
\* busyComputing = true at the same time.
C7_NotComputedAndBusy ==
    \A ref \in StatRefs(char) :
        ~(StatOf(char, ref).computed /\ StatOf(char, ref).busyComputing)

\* A pass in which computeStat has marked one stat computed and another is
\* still to be computed.
C7_Witness ==
    /\ status = "running"
    /\ \E r1, r2 \in StatRefs(char) :
          StatOf(char, r1).computed /\ ~StatOf(char, r2).computed

\* C8: a token strMod is substituted by the modifier of str, which
\* computeStat computes first when it is not computed: the stat the
\* callback has computed is the attribute whose modifier it reads, and the
\* formula strMod + 2 evaluates to the modifier plus 2.
C8_ModifierSubstituted ==
    /\ \A x \in DOMAIN stack :
          (stack[x].fn = "evaluateCalculation" /\ stack[x].pc = "substitute"
             /\ stack[x].rd.field = "mod" /\ x < Len(stack))
          => stack[x + 1].stat = stack[x].rd.ref
    /\ \A ref \in StatRefs(char) : \A x \in DOMAIN StatOf(char, ref).effects :
          LET effect == StatOf(char, ref).effects[x]
          IN (effect.computed /\ Evaluated(effect) /\ effect.calculation = StrModPlus2)
             => effect.result = NumAdd(char.atts[str].mod, Num(2))

\* C9: when the character has a skill named proficiencyBonus, combining
\* another skill uses that skill's result, computed first, as the
\* proficiency bonus; without such a skill it uses
\* floor(totalLevel / 4 + 1.75).
C9_ProficiencyBonusSkill ==
    \A x \in DOMAIN stack :
        (/\ stack[x].fn = "computeStat"
         /\ stack[x].pc \in {"ability", "skillResult"}
         /\ stack[x].stat # Ref("skills", proficiencyBonus))
        => IF proficiencyBonus \in DOMAIN char.skills
           THEN /\ char.skills[proficiencyBonus].computed
                /\ stack[x].profBonus = char.skills[proficiencyBonus].result
           ELSE stack[x].profBonus = DefaultProfBonus(char)

\* The largest level among the enabled skill and save proficiencies of a
\* name, 0 without any.
RECURSIVE MaxLevel(_, _)
MaxLevel(docs, name) ==
    IF docs = <<>> THEN Num(0)
    ELSE LET p == Head(docs)
             rest == MaxLevel(Tail(docs), name)
         IN IF p.enabled /\ p.type \in {"skill", "save"} /\ p.name = name
               /\ NumLt(rest, p.value)
            THEN p.value ELSE rest

\* C10: building the character attaches the enabled proficiencies of each
\* skill without an error, and after the pass the proficiency of each skill
\* is the largest level among them.
C10_ProficiencyAttached ==
    /\ ~(Finished /\ BuildThrows)
    /\ status = "done"
          => \A name \in DOMAIN char.skills :
                char.skills[name].proficiency = MaxLevel(records.proficiencies, name)

\* The number of enabled effect documents on the stat name with operation
\* mul and value v.
MarkerCount(docs, name, v) ==
    Cardinality({x \in DOMAIN docs :
                    /\ docs[x].enabled /\ docs[x].stat = name
                    /\ docs[x].operation = "mul" /\ docs[x].value = v})

\* C11: after a pass that returned, the result of every damage multiplier
\* follows from its markers (its mul effects of value 0, 0.5 and 2): 0 with
\* an immunity, else 1 with a resistance and a vulnerability, 0.5 with a
\* resistance only, 2 with a vulnerability only, 1 with no marker.
C11_DamageMultiplierResult ==
    status = "done" =>
        \A name \in DOMAIN char.dms :
            LET immunity == MarkerCount(records.effects, name, Num(0))
                resistance == MarkerCount(records.effects, name, Rat(1, 2))
                vulnerability == MarkerCount(records.effects, name, Num(2))
            IN char.dms[name].result =
                  IF immunity > 0 THEN Num(0)
                  ELSE IF resistance > 0 /\ vulnerability > 0 THEN Num(1)
                  ELSE IF resistance > 0 THEN Rat(1, 2)
                  ELSE IF vulnerability > 0 THEN Num(2)
                  ELSE Num(1)

\* The sum of the levels of the class documents.
RECURSIVE SumLevels(_)
SumLevels(docs) ==
    IF docs = <<>> THEN Num(0) ELSE NumAdd(Head(docs).level, SumLevels(Tail(docs)))

\* C12: once buildCharacter has built the character, its level is the sum
\* of the levels of all its class documents, documents of the same class
\* name included.
C12_LevelIsSum ==
    (status # "idle" /\ ~BuildThrows) => char.level = SumLevels(records.classes)

\* C13: an effect whose formula is fighterLevel + 1 or fighterLevels + 1
\* evaluates to the level of the class plus 1 when the character has a
\* class document named fighter in any letter case, whatever its level,
\* and stays text only without such a class; level + 1 evaluates to the
\* character's level plus 1.
C13_ClassLevelSubstituted ==
    \A ref \in StatRefs(char) : \A x \in DOMAIN StatOf(char, ref).effects :
        LET effect == StatOf(char, ref).effects[x]
            named == {y \in DOMAIN records.classes :
                         toLowerCase(records.classes[y].name) = fighter}
        IN (effect.computed /\ Evaluated(effect) /\ effect.calculation \in LevelFormulas)
           => IF effect.calculation = LevelPlus1(level)
              THEN effect.result = NumAdd(char.level, Num(1))
              ELSE IF named = {} THEN effect.result.t = "text"
              ELSE \E y \in named :
                      effect.result = NumAdd(records.classes[y].level, Num(1))

\* C14: every computed attribute has result (base + add) * mul, clamped to
\* [min, max] and floored unless the attribute is decimal; an ability has
\* modifier floor((result - 10) / 2), so an integer result k gives the
\* modifier (k - 10) div 2 (14 gives 2, 10 gives 0, 9 gives -1).
C14_AttributeResult ==
    \A name \in DOMAIN char.atts :
        LET a == char.atts[name]
            raw == NumMul(ToNumber(JsAdd(a.base, a.add)), ToNumber(a.mul))
            low == IF NumLt(raw, ToNumber(a.min)) THEN a.min ELSE raw
            high == IF NumLt(ToNumber(a.max), ToNumber(low)) THEN a.max ELSE low
            r == IF a.decimal THEN high ELSE Floor(high)
        IN a.computed =>
              /\ a.result = r
              /\ a.attributeType = "ability" =>
                    /\ a.mod = Floor(NumDiv(NumAdd(ToNumber(r), Num(-10)), Num(2)))
                    /\ \A k \in -5..40 : r = Num(k) => a.mod = Num((k - 10) \div 2)

\* A returned pass in which an ability has result 9 (and so modifier -1).
C14_Witness ==
    /\ status = "done"
    /\ \E name \in DOMAIN char.atts :
          /\ char.atts[name].computed /\ char.atts[name].attributeType = "ability"
          /\ char.atts[name].result = Num(9)

\* C15: when computeCharacterById is over, the result of every skill is
\* floor(clamp((abilityModifier + proficiencyBonus * proficiencyLevel + add)
\* * mul)), where proficiencyLevel is the largest level among the skill's
\* enabled proficiencies, proficiencyBonus is that of the character, and
\* abilityModifier is the modifier of the computed attribute the skill
\* names, 0 without one.
C15_SkillResult ==
    (status = "done" \/ (Finished /\ BuildThrows)) =>
        \A name \in DOMAIN char.skills :
            LET sk == char.skills[name]
                based == sk.ability # <<>> /\ sk.ability \in DOMAIN char.atts
                abilityModifier == IF based THEN char.atts[sk.ability].mod ELSE Num(0)
                bonus == IF proficiencyBonus \in DOMAIN char.skills
                         THEN char.skills[proficiencyBonus].result
                         ELSE DefaultProfBonus(char)
                scaled == JsMul(bonus, MaxLevel(records.proficiencies, name))
                raw == JsMul(JsAdd(JsAdd(abilityModifier, scaled), sk.add), sk.mul)
                low == IF JsLt(raw, sk.min) THEN sk.min ELSE raw
                high == IF JsGt(low, sk.max) THEN sk.max ELSE low
            IN /\ based => char.atts[sk.ability].computed
               /\ sk.result = Floor(high)

\* The documents without the effects that name no stat of the character.
WithoutDangling(recs) ==
    [recs EXCEPT !.effects = SelectSeq(@, LAMBDA e : HasTarget(recs, e))]

\* C16: an enabled effect that names no stat of the character is stored
\* under no stat and raises nothing (the character built is the one built
\* without it), and a pass over the documents without such effects ends as
\* the pass with them did, with the same result of every stat.
C16_DanglingEffectDropped ==
    /\ (status = "running" /\ Len(stack) = 1 /\ Top.fn = "computeCharacter" /\ Top.k = 0)
          => char = buildCharacter(CharId, WithoutDangling(records)).char
    /\ BuildThrows = (buildCharacter(CharId, WithoutDangling(records)).error # "none")
    /\ (prev.kind = "without" /\ Finished)
          => /\ status = prev.status
             /\ \A ref \in StatRefs(char) :
                   StatOf(char, ref).result = StatOf(prev.char, ref).result

\* Both passes returned, the first over documents with an effect on a stat
\* the character lacks, and some stat with effects has a result.
C16_Witness ==
    /\ prev.kind = "without" /\ prev.status = "done" /\ status = "done"
    /\ \E ref \in StatRefs(char) :
          StatOf(char, ref).effects # <<>> /\ StatOf(char, ref).result # Num(0)

\* C17: after a pass that returned, the result of every attribute and of
\* every damage multiplier is a number or NaN, not text.
C17_NumericResult ==
    status = "done" =>
        \A ref \in StatRefs(char) :
            ref.kind \in {"atts", "dms"}
               => StatOf(char, ref).result.t \in {"num", "nan", "inf", "ninf"}

\* C18: the updates of a returned pass carry, for every skill, its result,
\* advantage, disadvantage, passiveAdd, proficiency, conditional and fail
\* counts; for every attribute its result and, for an ability, its
\* modifier; for every damage multiplier its result; and the level.
C18_WriteBackComplete ==
    status = "done" =>
        /\ \A name \in DOMAIN char.skills :
              \E x \in DOMAIN updates :
                 /\ updates[x].collection = "Skills" /\ updates[x].variableName = name
                 /\ {"value", "advantage", "disadvantage", "passiveBonus", "proficiency",
                     "conditionalBenefits", "fail"} \subseteq DOMAIN updates[x].set
                 /\ updates[x].set["value"] = char.skills[name].result
                 /\ updates[x].set["disadvantage"] = char.skills[name].disadvantage
        /\ \A name \in DOMAIN char.atts :
              \E x \in DOMAIN updates :
                 /\ updates[x].collection = "Attributes" /\ updates[x].variableName = name
                 /\ updates[x].set["value"] = char.atts[name].result
                 /\ char.atts[name].attributeType = "ability"
                       => /\ "mod" \in DOMAIN updates[x].set
                          /\ updates[x].set["mod"] = char.atts[name].mod
        /\ \A name \in DOMAIN char.dms :
              \E x \in DOMAIN updates :
                 /\ updates[x].collection = "DamageMultipliers"
                 /\ updates[x].variableName = name
                 /\ updates[x].set["value"] = char.dms[name].result
        /\ \E x \in DOMAIN updates :
              updates[x].collection = "Characters" /\ updates[x].set["level"] = char.level

\* C19: a second call of computeCharacterById over unchanged documents
\* starts from stats that are not computed and have no result, and ends as
\* the first call did, with the same character.
C19_Idempotent ==
    /\ (prev.kind = "same" /\ status = "running" /\ Len(stack) = 1
           /\ Top.fn = "computeCharacter" /\ Top.k = 0)
          => \A ref \in StatRefs(char) :
                /\ ~StatOf(char, ref).computed
                /\ StatOf(char, ref).result = Num(0)
                /\ \A x \in DOMAIN StatOf(char, ref).effects :
                      ~StatOf(char, ref).effects[x].computed
    /\ (prev.kind = "same" /\ Finished)
          => /\ status = prev.status
             /\ char = prev.char

\* Two calls over the same documents have returned, and a stat with
\* effects has a result.
C19_Witness ==
    /\ prev.kind = "same" /\ prev.status = "done" /\ status = "done"
    /\ \E ref \in StatRefs(char) :
          StatOf(char, ref).effects # <<>> /\ StatOf(char, ref).result # Num(0)

\* C20: while computeStat iterates the effects of a stat (it has passed
\* its early returns and has not yet combined), the stat has
\* busyComputing = true.
C20_MarkedInProgress ==
    \A x \in DOMAIN stack :
        (stack[x].fn = "computeStat" /\ stack[x].pc \in {"loop", "apply"})
           => StatOf(char, stack[x].stat).busyComputing

C22_LazyForcing ==
    \A x \in DOMAIN stack :
        LET f == stack[x]
            forced(ref) == IF x < Len(stack) THEN stack[x + 1].stat = ref
                           ELSE StatOf(char, ref).computed
        IN /\ (f.fn = "evaluateCalculation" /\ f.pc = "substitute") => forced(f.rd.ref)
           /\ (f.fn = "computeStat" /\ f.pc = "profBonus")
                 => forced(Ref("skills", proficiencyBonus))
           /\ (f.fn = "computeStat" /\ f.pc = "skillResult"
                 /\ StatOf(char, f.stat).ability # <<>>
                 /\ StatOf(char, f.stat).ability \in DOMAIN char.atts)
                 => forced(Ref("atts", StatOf(char, f.stat).ability))

\* C23: when computeStat applies an effect, the effect it applies is the
\* one computeEffect has just evaluated for it: the loop variable names the
\* position the loop of this activation has reached, whatever loops ran
\* in between.
C23_AppliesEvaluatedEffect ==
    Running("computeStat", "apply") => i = Top.k - 1

\* C24: a step of applyEffect leaves every other stat and every field of
\* the stat but the accumulator named by the effect's operation unchanged,
\* raises nothing, and gives that accumulator, when the stat has it, the
\* larger value (base, min), the smaller value (max), the sum (add,
\* passiveAdd), the product (mul) or one more (advantage, disadvantage,
\* fail, conditional).
C24_ApplyEffectFrame ==
    [][(Running("computeStat", "apply") /\ HasEffect(StatOf(char, Top.stat), i)) =>
          LET before == StatOf(char, Top.stat)
              after == StatOf(char', Top.stat)
              effect == EffectAt(before, i)
              acc == effect.operation
              r == effect.result
          IN /\ status' = "running"
             /\ \A ref \in StatRefs(char) \ {Top.stat} : StatOf(char', ref) = StatOf(char, ref)
             /\ DOMAIN after = DOMAIN before
             /\ \A f \in DOMAIN before \ {acc} : after[f] = before[f]
             /\ acc \in DOMAIN before =>
                   after[acc] =
                      CASE acc \in {"base", "min"} ->
                              IF NumLt(ToNumber(before[acc]), ToNumber(r)) THEN r ELSE before[acc]
                        [] acc = "max" ->
                              IF NumLt(ToNumber(r), ToNumber(before[acc])) THEN r ELSE before[acc]
                        [] acc \in {"add", "passiveAdd"} ->
                              IF r.t = "text" \/ before[acc].t = "text"
                              THEN JsAdd(before[acc], r)
                              ELSE NumAdd(ToNumber(before[acc]), ToNumber(r))
                        [] acc = "mul" -> NumMul(ToNumber(before[acc]), ToNumber(r))
                        [] acc \in {"advantage", "disadvantage", "fail", "conditional"} ->
                              NumAdd(before[acc], Num(1))
                        [] OTHER -> before[acc]]_vars

\* computeStat has applied effects to a stat it has not combined yet: a
\* base effect raised its base, or an add effect changed its add.
C24_Witness ==
    /\ Running("computeStat", "loop")
    /\ Top.k >= 1
    /\ ~StatOf(char, Top.stat).computed
    /\ "add" \in DOMAIN StatOf(char, Top.stat)
    /\ StatOf(char, Top.stat).add # Num(0)

\* C25: within a pass no effect is under evaluation twice (computeEffect
\* has at most one activation for it), and a computed effect has the
\* result its fields determine: its finite value; else its calculation for
\* a conditional; else 1 for an advantage, a disadvantage or a fail.
C25_EffectEvaluatedOnce ==
    \A ref \in StatRefs(char) : \A x \in DOMAIN StatOf(char, ref).effects :
        LET effect == StatOf(char, ref).effects[x]
        IN /\ Cardinality({y \in DOMAIN stack :
                               /\ stack[y].fn = "computeEffect"
                               /\ stack[y].stat = ref /\ stack[y].eff = x - 1}) <= 1
           /\ effect.computed =>
                 IF IsFinite(effect.value) THEN effect.result = effect.value
                 ELSE IF effect.operation = "conditional"
                      THEN effect.result = effect.calculation
                 ELSE IF effect.operation \in {"advantage", "disadvantage", "fail"}
                      THEN effect.result = Num(1)
                 ELSE TRUE

\* C26: an effect whose formula is the variable name of a stat of the
\* character evaluates to the result of that stat: of the attribute of
\* that name, else of the skill, else of the damage multiplier, whatever
\* letter case the name uses.
C26_TokenByVariableName ==
    \A ref \in StatRefs(char) : \A x \in DOMAIN StatOf(char, ref).effects :
        LET effect == StatOf(char, ref).effects[x]
        IN \A n \in DOMAIN char.atts \cup DOMAIN char.skills \cup DOMAIN char.dms :
              (effect.computed /\ Evaluated(effect) /\ effect.calculation = Reference(n))
              => effect.result =
                    IF n \in DOMAIN char.atts THEN char.atts[n].result
                    ELSE IF n \in DOMAIN char.skills THEN char.skills[n].result
                    ELSE char.dms[n].result

====
